---- MODULE Spec2Model ----
(***************************************************************************)
(* Model of src/api.py: the /check_availability handler of the Livin       *)
(* Popayan API (check_availability_and_price), its SQL query and its       *)
(* price computation in Python decimal arithmetic.                         *)
(***************************************************************************)
EXTENDS Integers, Sequences, FiniteSets, TLC

(***************************************************************************)
(* Python values.                                                          *)
(***************************************************************************)
\* Python None / SQL NULL.
None == [none |-> TRUE]

\* decimal's default context precision (significant digits); every
\* arithmetic operation on Decimal rounds its result to it, half-even.
Prec == 28

(***************************************************************************)
(* decimal.Decimal, non-negative: [i |-> integer part, f |-> the digits    *)
(* after the point]. A coefficient of 28 digits does not fit a machine     *)
(* integer of the checker, so the fraction is a digit sequence.            *)
(***************************************************************************)
RECURSIVE NDigits(_)
NDigits(n) == IF n = 0 THEN 0 ELSE 1 + NDigits(n \div 10)

RECURSIVE StripZeros(_)
StripZeros(f) ==
    IF f = <<>> THEN <<>>
    ELSE IF f[Len(f)] = 0 THEN StripZeros(SubSeq(f, 1, Len(f) - 1))
    ELSE f

RECURSIVE LeadingZeros(_)
LeadingZeros(f) ==
    IF f = <<>> THEN 0
    ELSE IF Head(f) = 0 THEN 1 + LeadingZeros(Tail(f))
    ELSE 0

Dec(i, f) == [i |-> i, f |-> StripZeros(f)]

DecZero == Dec(0, <<>>)

DecIsZero(v) == v.i = 0 /\ StripZeros(v.f) = <<>>

\* Adds one unit in the last place of f; <<carry into the integer part, digits>>.
RECURSIVE IncFrac(_)
IncFrac(f) ==
    IF f = <<>> THEN <<1, <<>>>>
    ELSE LET last == f[Len(f)]
             init == SubSeq(f, 1, Len(f) - 1)
         IN IF last < 9 THEN <<0, Append(init, last + 1)>>
            ELSE LET r == IncFrac(init) IN <<r[1], Append(r[2], 0)>>

\* The context's rounding of a result to Prec significant digits, half-even.
\* sticky: the exact result has further non-zero digits beyond those of v.
ContextRound(v, sticky) ==
    LET L    == NDigits(v.i)
        keep == IF L > 0 THEN Prec - L ELSE LeadingZeros(v.f) + Prec
    IN IF Len(v.f) <= keep THEN Dec(v.i, v.f)
       ELSE LET kept  == SubSeq(v.f, 1, keep)
                d     == v.f[keep + 1]
                rest  == StripZeros(SubSeq(v.f, keep + 2, Len(v.f)))
                more  == sticky \/ rest # <<>>
                lastd == IF keep > 0 THEN kept[keep] ELSE v.i % 10
                up    == \/ d > 5
                         \/ d = 5 /\ more
                         \/ d = 5 /\ ~more /\ lastd % 2 = 1
            IN IF up THEN LET r == IncFrac(kept) IN Dec(v.i + r[1], r[2])
               ELSE Dec(v.i, kept)

\* <<carry, digits>> of k times the fraction digits f.
RECURSIVE MulFrac(_, _)
MulFrac(k, f) ==
    IF f = <<>> THEN <<0, <<>>>>
    ELSE LET r == MulFrac(k, Tail(f))
             t == k * Head(f) + r[1]
         IN <<t \div 10, <<t % 10>> \o r[2]>>

\* int * Decimal (Decimal.__rmul__), k >= 0.
DecMulInt(k, v) ==
    LET r == MulFrac(k, v.f)
    IN ContextRound([i |-> k * v.i + r[1], f |-> r[2]], FALSE)

Pad(f, n) == f \o [j \in 1..(n - Len(f)) |-> 0]

\* <<carry, digits>> of the digitwise sum of two fractions of equal length.
RECURSIVE AddFrac(_, _)
AddFrac(f, g) ==
    IF f = <<>> THEN <<0, <<>>>>
    ELSE LET r == AddFrac(Tail(f), Tail(g))
             t == Head(f) + Head(g) + r[1]
         IN <<t \div 10, <<t % 10>> \o r[2]>>

\* Decimal + Decimal (Decimal.__add__).
DecAdd(a, b) ==
    LET n == IF Len(a.f) > Len(b.f) THEN Len(a.f) ELSE Len(b.f)
        r == AddFrac(Pad(a.f, n), Pad(b.f, n))
    IN ContextRound([i |-> a.i + b.i + r[1], f |-> r[2]], FALSE)

\* Long division by d of remainder r followed by the digits f, n digits of
\* quotient: <<quotient digits, final remainder>>.
RECURSIVE DivDigits(_, _, _, _)
DivDigits(r, f, d, n) ==
    IF n = 0 THEN <<<<>>, r>>
    ELSE LET x    == 10 * r + (IF f = <<>> THEN 0 ELSE Head(f))
             rest == DivDigits(x % d, IF f = <<>> THEN <<>> ELSE Tail(f), d, n - 1)
         IN <<<<x \div d>> \o rest[1], rest[2]>>

\* Decimal / Decimal(d) for an integer d > 0 (Decimal.__truediv__): the
\* quotient correctly rounded to Prec significant digits.
DecDivInt(v, d) ==
    LET n == Prec + Len(v.f) + NDigits(d) + 2
        q == DivDigits(v.i % d, v.f, d, n)
    IN ContextRound([i |-> v.i \div d, f |-> q[1]], q[2] # 0)

\* total_price > 0
DecPositive(v) == ~DecIsZero(v)

\* Mutant: ROUND_HALF_EVEN in place of ROUND_HALF_UP.
QuantizeHalfUp_even(v) ==
    LET f == StripZeros(v.f)
    IN v.i + (IF f = <<>> \/ f[1] < 5 THEN 0
              ELSE IF f = <<5>> THEN v.i % 2
              ELSE 1)

\* Decimal.quantize(Decimal('1'), rounding=ROUND_HALF_UP): an integer.
QuantizeHalfUp(v) ==
    v.i + (IF Len(v.f) >= 1 /\ v.f[1] >= 5 THEN 1 ELSE 0)

(***************************************************************************)
(* Dates. A date string is the sequence of its '-'-separated numeric       *)
(* fields; <<>> is an absent (None) or empty argument.                     *)
(***************************************************************************)
IsLeap(y) == (y % 4 = 0 /\ y % 100 # 0) \/ y % 400 = 0

DaysInMonth(y, m) ==
    IF m = 2 THEN (IF IsLeap(y) THEN 29 ELSE 28)
    ELSE IF m \in {4, 6, 9, 11} THEN 30 ELSE 31

\* datetime.strptime(s, '%Y-%m-%d') succeeds (otherwise it raises ValueError).
strptime_ok(s) ==
    /\ Len(s) = 3
    /\ s[1] \in 1..9999
    /\ s[2] \in 1..12
    /\ s[3] \in 1..DaysInMonth(s[1], s[2])

RECURSIVE DaysBeforeMonth(_, _)
DaysBeforeMonth(y, m) ==
    IF m = 1 THEN 0 ELSE DaysBeforeMonth(y, m - 1) + DaysInMonth(y, m - 1)

\* date.toordinal(): what the difference of two dates is taken on.
toordinal(s) ==
    LET y == s[1] - 1
    IN 365 * y + (y \div 4) - (y \div 100) + (y \div 400)
       + DaysBeforeMonth(s[1], s[2]) + s[3]

(***************************************************************************)
(* The data store: the relations the query reads.                          *)
(***************************************************************************)
\* Bounds of the enumerated data-store contents.
MaxRules == 2
MaxBookings == 2

D(i) == Dec(i, <<>>)

PropertyRows ==
    { [id |-> 1, name |-> "Apto 101", description |-> "1 hab", num_bedrooms |-> 1,
       min_stay_nights |-> 4, pricing_category |-> "A"],
      [id |-> 2, name |-> "Apto 202", description |-> "2 hab", num_bedrooms |-> 2,
       min_stay_nights |-> 4, pricing_category |-> "A"],
      [id |-> 3, name |-> "Apto 303", description |-> "1 hab, mensual", num_bedrooms |-> 1,
       min_stay_nights |-> 30, pricing_category |-> "A"],
      [id |-> 4, name |-> "Apto 404", description |-> "1 hab, B", num_bedrooms |-> 1,
       min_stay_nights |-> 4, pricing_category |-> "B"],
      [id |-> 5, name |-> "Apto 505", description |-> "sin tarifa", num_bedrooms |-> 2,
       min_stay_nights |-> 7, pricing_category |-> "C"] }

RuleRows ==
    { [category |-> "A", price_per_night |-> D(80000), monthly_rate |-> None,
       min_nights |-> 4, max_nights |-> 29],
      [category |-> "A", price_per_night |-> Dec(0, <<0, 5>>), monthly_rate |-> None,
       min_nights |-> 4, max_nights |-> 365],
      [category |-> "A", price_per_night |-> Dec(0, <<1, 2, 5>>), monthly_rate |-> None,
       min_nights |-> 4, max_nights |-> 29],
      [category |-> "A", price_per_night |-> None, monthly_rate |-> D(900000),
       min_nights |-> 30, max_nights |-> 365],
      [category |-> "A", price_per_night |-> D(50000), monthly_rate |-> D(55),
       min_nights |-> 30, max_nights |-> 365],
      [category |-> "B", price_per_night |-> None, monthly_rate |-> None,
       min_nights |-> 4, max_nights |-> 365],
      [category |-> "B", price_per_night |-> None, monthly_rate |-> D(3),
       min_nights |-> 30, max_nights |-> 365] }

BookingRows ==
    { [property_id |-> 1, start_date |-> <<2025, 10, 10>>, end_date |-> <<2025, 10, 20>>],
      [property_id |-> 1, start_date |-> <<2025, 10, 25>>, end_date |-> <<2025, 11, 5>>],
      [property_id |-> 4, start_date |-> <<2025, 10, 22>>, end_date |-> <<2025, 10, 24>>] }

(***************************************************************************)
(* The request's query-string arguments.                                   *)
(***************************************************************************)
StartArgs == { <<>>, <<2025, 2, 30>>, <<2025, 10, 15>>, <<2025, 10, 20>> }

EndArgs == { <<>>, <<2025, 10>>, <<2025, 10, 18>>, <<2025, 10, 20>>, <<2025, 10, 25>>, <<2025, 10, 30>>,
             <<2025, 11, 24>>, <<2025, 12, 10>>, <<2025, 12, 19>> }

\* num_bedrooms as sent: absent, a text that int() rejects, or an integer's text.
BedroomArgs == { [sent |-> FALSE, int |-> FALSE, v |-> 0],
                 [sent |-> TRUE, int |-> FALSE, v |-> 0],
                 [sent |-> TRUE, int |-> TRUE, v |-> -1],
                 [sent |-> TRUE, int |-> TRUE, v |-> 0],
                 [sent |-> TRUE, int |-> TRUE, v |-> 1],
                 [sent |-> TRUE, int |-> TRUE, v |-> 2] }

\* request.args.get('num_bedrooms', type=int): None when absent or when int() raises.
args_get_int(a) == IF a.sent /\ a.int THEN [v |-> a.v] ELSE None

\* Python truthiness of an int-or-None.
Truthy(x) == IF x = None THEN FALSE ELSE x.v # 0

(***************************************************************************)
(* sql_query.                                                              *)
(***************************************************************************)
RECURSIVE Orderings(_)
Orderings(S) ==
    IF S = {} THEN {<<>>}
    ELSE UNION { { <<x>> \o s : s \in Orderings(S \ {x}) } : x \in S }

\* LEFT JOIN pricing_rules pr ON p.pricing_category = pr.category: the rule
\* rows of the category, or one row of NULLs when there is none.
LeftJoin(p, rules) ==
    LET m == { pr \in rules : pr.category = p.pricing_category }
    IN IF m = {} THEN {None} ELSE m

\* The WHERE clause's pricing-rule disjunction; a comparison with NULL is not true.
WhereRule(pr, nights) ==
    /\ pr # None
    /\ \/ pr.min_nights <= nights /\ pr.max_nights >= nights /\ pr.monthly_rate = None
       \/ nights >= 30 /\ pr.monthly_rate # None /\ pr.min_nights >= 30

\* Mutant: closed-interval overlap.
BookingOverlaps_closed(b, end_date_str, start_date_str) ==
    /\ toordinal(b.start_date) <= toordinal(end_date_str)
    /\ toordinal(b.end_date) >= toordinal(start_date_str)

\* b.start_date < %s AND b.end_date > %s, with (end_date_str, start_date_str).
BookingOverlaps(b, end_date_str, start_date_str) ==
    /\ toordinal(b.start_date) < toordinal(end_date_str)
    /\ toordinal(b.end_date) > toordinal(start_date_str)

\* The subquery of NOT IN.
BookedIds(bks, end_date_str, start_date_str) ==
    { b.property_id : b \in { x \in bks : BookingOverlaps(x, end_date_str, start_date_str) } }

\* Mutant: the minimum-stay condition dropped.
WhereProperty_nominstay(p, nb, nights) == p.num_bedrooms = nb

WhereProperty(p, nb, nights) ==
    /\ p.num_bedrooms = nb
    /\ p.min_stay_nights <= nights

\* The joined rows the WHERE clause keeps.
Selected(props, rules, bks, nb, nights, end_date_str, start_date_str) ==
    { j \in UNION { { <<p, pr>> : pr \in LeftJoin(p, rules) } : p \in props } :
        /\ WhereProperty(j[1], nb, nights)
        /\ WhereRule(j[2], nights)
        /\ j[1].id \notin BookedIds(bks, end_date_str, start_date_str) }

\* SELECT p.id, p.name, p.description, pr.price_per_night, pr.monthly_rate
Columns(j) ==
    [id |-> j[1].id, name |-> j[1].name, description |-> j[1].description,
     price_per_night |-> j[2].price_per_night, monthly_rate |-> j[2].monthly_rate]

MinOf(S) == CHOOSE x \in S : \A y \in S : x <= y

\* ORDER BY p.id: ascending ids; rows of one id come in any order.
RECURSIVE OrderById(_, _)
OrderById(ids, sel) ==
    IF ids = {} THEN {<<>>}
    ELSE LET m == MinOf(ids)
         IN { g \o rest : g \in Orderings({ j \in sel : j[1].id = m }),
                          rest \in OrderById(ids \ {m}, sel) }

\* The row lists cur.fetchall() may return for the query.
sql_query(props, rules, bks, nb, nights, end_date_str, start_date_str) ==
    LET sel == Selected(props, rules, bks, nb, nights, end_date_str, start_date_str)
    IN { [k \in 1..Len(s) |-> Columns(s[k])] : s \in OrderById({ j[1].id : j \in sel }, sel) }

(***************************************************************************)
(* The price of one row (the body of the for loop).                        *)
(***************************************************************************)
MonthlyTotal(nights, monthly_rate) ==
    LET monthly_rate_dec == monthly_rate
        num_months       == nights \div 30
        remaining_days   == nights % 30
        whole            == DecMulInt(num_months, monthly_rate_dec)
    IN IF remaining_days > 0
       THEN LET daily_rate == DecDivInt(monthly_rate_dec, 30)
            IN DecAdd(whole, DecMulInt(remaining_days, daily_rate))
       ELSE whole

NightlyTotal(nights, price_per_night) == DecMulInt(nights, price_per_night)

UsesMonthly(nights, row) == nights >= 30 /\ row.monthly_rate # None

\* Mutant: the nightly branch tested first.
RowTotal_nightlyfirst(nights, row) ==
    IF row.price_per_night # None THEN NightlyTotal(nights, row.price_per_night)
    ELSE IF UsesMonthly(nights, row) THEN MonthlyTotal(nights, row.monthly_rate)
    ELSE DecZero

RowTotal(nights, row) ==
    IF UsesMonthly(nights, row) THEN MonthlyTotal(nights, row.monthly_rate)
    ELSE IF row.price_per_night # None THEN NightlyTotal(nights, row.price_per_night)
    ELSE DecZero

Included(total) == DecPositive(total)

\* float(monthly_rate) if monthly_rate else None
MonthlyField(monthly_rate) ==
    IF monthly_rate = None \/ DecIsZero(monthly_rate) THEN None ELSE monthly_rate

\* float(final_price) of an integer below 2^53 is that integer.
Entry(row, total) ==
    [property_id |-> row.id, name |-> row.name, description |-> row.description,
     monthly_rate |-> MonthlyField(row.monthly_rate),
     total_price |-> QuantizeHalfUp(total)]

(***************************************************************************)
(* The handler check_availability_and_price, one request at a time.        *)
(***************************************************************************)
VARIABLES
    properties, pricing_rules, bookings,  \* the data store
    args,                   \* request.args
    pc,                     \* the handler's position
    num_bedrooms,           \* int-or-None
    stay_duration_nights,
    conn, cur,              \* "unset", "open" or "closed"
    queries,                \* statements executed on the data store
    available_properties,   \* the fetched rows
    idx,                    \* rows the loop has handled
    total_price,            \* of the row last handled
    results,
    response                \* None until the handler returns

vars == <<properties, pricing_rules, bookings, args, pc, num_bedrooms,
          stay_duration_nights, conn, cur, queries, available_properties, idx,
          total_price, results, response>>

store == <<properties, pricing_rules, bookings>>

Init ==
    /\ properties = PropertyRows
    /\ pricing_rules \in { r \in SUBSET RuleRows : Cardinality(r) <= MaxRules }
    /\ bookings \in { b \in SUBSET BookingRows : Cardinality(b) <= MaxBookings }
    /\ args = None
    /\ pc = "idle"
    /\ num_bedrooms = None
    /\ stay_duration_nights = 0
    /\ conn = "unset"
    /\ cur = "unset"
    /\ queries = 0
    /\ available_properties = <<>>
    /\ idx = 0
    /\ total_price = DecZero
    /\ results = <<>>
    /\ response = None

Ok(json) == [status |-> 200, json |-> json]

BadRequest == [status |-> 400, json |-> [error |-> "Faltan parametros"]]

\* The except clause: whatever was raised inside the try block.
ServerError == [status |-> 500, json |-> [error |-> "Ocurrio un error en el servidor"]]

\* A request arrives.
Request ==
    /\ pc = "idle"
    /\ \E s \in StartArgs, e \in EndArgs, b \in BedroomArgs :
          args' = [start_date |-> s, end_date |-> e, num_bedrooms |-> b]
    /\ pc' = "validate"
    /\ UNCHANGED <<store, num_bedrooms, stay_duration_nights, conn, cur, queries,
                   available_properties, idx, total_price, results, response>>

\* if not start_date_str or not end_date_str or not num_bedrooms
Missing(a, nb) == a.start_date = <<>> \/ a.end_date = <<>> \/ ~Truthy(nb)

Validate ==
    /\ pc = "validate"
    /\ num_bedrooms' = args_get_int(args.num_bedrooms)
    /\ IF Missing(args, num_bedrooms')
       THEN response' = BadRequest /\ pc' = "done"
       ELSE response' = response /\ pc' = "duration"
    /\ UNCHANGED <<store, args, stay_duration_nights, conn, cur, queries,
                   available_properties, idx, total_price, results>>

\* Mutant: the short-stay threshold off by one.
TooShort_3(nights) == nights < 3

\* if stay_duration_nights < 4
TooShort(nights) == nights < 4

\* The try block up to the short-stay return.
Duration ==
    /\ pc = "duration"
    /\ IF ~strptime_ok(args.start_date) \/ ~strptime_ok(args.end_date)
       THEN /\ response' = ServerError
            /\ pc' = "done"
            /\ UNCHANGED stay_duration_nights
       ELSE /\ stay_duration_nights' = toordinal(args.end_date) - toordinal(args.start_date)
            /\ IF TooShort(stay_duration_nights')
               THEN response' = Ok(<<>>) /\ pc' = "done"
               ELSE response' = response /\ pc' = "connect"
    /\ UNCHANGED <<store, args, num_bedrooms, conn, cur, queries,
                   available_properties, idx, total_price, results>>

\* conn = get_db_connection(): psycopg2.connect returns a connection or raises.
Connect ==
    /\ pc = "connect"
    /\ \E ok \in BOOLEAN :
          IF ok THEN conn' = "open" /\ pc' = "cursor" /\ response' = response
          ELSE conn' = conn /\ pc' = "done" /\ response' = ServerError
    /\ UNCHANGED <<store, args, num_bedrooms, stay_duration_nights, cur, queries,
                   available_properties, idx, total_price, results>>

\* cur = conn.cursor()
Cursor ==
    /\ pc = "cursor"
    /\ \E ok \in BOOLEAN :
          IF ok THEN cur' = "open" /\ pc' = "execute" /\ response' = response
          ELSE cur' = cur /\ pc' = "done" /\ response' = ServerError
    /\ UNCHANGED <<store, args, num_bedrooms, stay_duration_nights, conn, queries,
                   available_properties, idx, total_price, results>>

\* cur.execute(sql_query, ...); available_properties = cur.fetchall()
Execute ==
    /\ pc = "execute"
    /\ queries' = queries + 1
    /\ \/ /\ available_properties' \in
                sql_query(properties, pricing_rules, bookings, num_bedrooms.v,
                          stay_duration_nights, args.end_date, args.start_date)
          /\ pc' = "close"
          /\ response' = response
       \/ /\ available_properties' = available_properties
          /\ pc' = "done"
          /\ response' = ServerError
    /\ UNCHANGED <<store, args, num_bedrooms, stay_duration_nights, conn, cur,
                   idx, total_price, results>>

\* cur.close(); conn.close(); results = []
Close ==
    /\ pc = "close"
    /\ cur' = "closed"
    /\ conn' = "closed"
    /\ results' = <<>>
    /\ idx' = 0
    /\ pc' = "loop"
    /\ UNCHANGED <<store, args, num_bedrooms, stay_duration_nights, queries,
                   available_properties, total_price, response>>

\* One iteration of: for prop in available_properties
PriceRow ==
    /\ pc = "loop"
    /\ idx < Len(available_properties)
    /\ idx' = idx + 1
    /\ total_price' = RowTotal(stay_duration_nights, available_properties[idx'])
    /\ results' = IF Included(total_price')
                  THEN Append(results, Entry(available_properties[idx'], total_price'))
                  ELSE results
    /\ UNCHANGED <<store, args, pc, num_bedrooms, stay_duration_nights, conn, cur,
                   queries, available_properties, response>>

\* return jsonify(results)
Respond ==
    /\ pc = "loop"
    /\ idx = Len(available_properties)
    /\ response' = Ok(results)
    /\ pc' = "done"
    /\ UNCHANGED <<store, args, num_bedrooms, stay_duration_nights, conn, cur,
                   queries, available_properties, idx, total_price, results>>

Next ==
    \/ Request
    \/ Validate
    \/ Duration
    \/ Connect
    \/ Cursor
    \/ Execute
    \/ Close
    \/ PriceRow
    \/ Respond

Spec == Init /\ [][Next]_vars

(***************************************************************************)
(* Properties.                                                             *)
(***************************************************************************)
Entries == { results[k] : k \in 1..Len(results) }

ResultIds == { e.property_id : e \in Entries }

\* The row the loop handled last.
prop == available_properties[idx]

RowPriced == pc = "loop" /\ idx > 0

LastEntry == results[Len(results)]

\* a strictly before b, on the fields of two valid dates.
DateLT(a, b) ==
    \/ a[1] < b[1]
    \/ a[1] = b[1] /\ a[2] < b[2]
    \/ a[1] = b[1] /\ a[2] = b[2] /\ a[3] < b[3]

\* The three parameters are present and in the format of the interface:
\* two YYYY-MM-DD dates and a positive integer.
WellFormedArgs ==
    /\ args # None
    /\ strptime_ok(args.start_date)
    /\ strptime_ok(args.end_date)
    /\ args.num_bedrooms.sent /\ args.num_bedrooms.int /\ args.num_bedrooms.v >= 1

ArgNights == toordinal(args.end_date) - toordinal(args.start_date)

\* C1: a well-formed request of fewer than 4 nights (zero and negative
\* durations included) never acquires a connection nor issues a query, and
\* its response is the successful empty list.
C1_ShortStayEmpty ==
    (WellFormedArgs /\ ArgNights < 4) =>
        /\ conn = "unset" /\ cur = "unset" /\ queries = 0
        /\ pc \in {"validate", "duration", "done"}
        /\ pc = "done" => response = [status |-> 200, json |-> <<>>]

C1_Witness ==
    /\ pc = "done" /\ WellFormedArgs /\ ArgNights = 3
    /\ response = [status |-> 200, json |-> <<>>]
    /\ pricing_rules # {} /\ bookings # {}

\* C2: every entry of a result list has a total_price that is an integer
\* of at least 1.
C2_TotalPricePositive == \A e \in Entries : e.total_price >= 1

\* C3: a request with a missing or unparsable parameter is answered 400,
\* not 500, and before any connection is acquired.
ArgsInvalid ==
    \/ ~strptime_ok(args.start_date)
    \/ ~strptime_ok(args.end_date)
    \/ ~args.num_bedrooms.sent
    \/ ~args.num_bedrooms.int

C3_InvalidInputIs400 ==
    (pc = "done" /\ ArgsInvalid) => (response.status = 400 /\ conn = "unset")

\* C4: no response is produced while the request's connection is open.
C4_ConnectionReleased == response # None => conn # "open"

\* C5: at a successful response, a property is in the result iff it would
\* be there with no bookings at all and no booking of it satisfies
\* booking.start_date < end_date and booking.end_date > start_date.
HasOverlap(p) ==
    \E b \in bookings :
        /\ b.property_id = p.id
        /\ DateLT(b.start_date, args.end_date)
        /\ DateLT(args.start_date, b.end_date)

IdsWithoutBookings ==
    LET rows == CHOOSE r \in sql_query(properties, pricing_rules, {}, num_bedrooms.v,
                                       stay_duration_nights, args.end_date,
                                       args.start_date) : TRUE
    IN { rows[k].id : k \in { j \in 1..Len(rows) :
                                Included(RowTotal(stay_duration_nights, rows[j])) } }

Answered == pc = "done" /\ response.status = 200 /\ conn = "closed"

C5_HalfOpenOverlap ==
    Answered =>
        \A p \in properties :
            p.id \in { e.property_id : e \in { response.json[k] : k \in 1..Len(response.json) } }
                <=> (p.id \in IdsWithoutBookings /\ ~HasOverlap(p))

C5_Witness ==
    /\ Answered
    /\ \E b \in bookings : b.end_date = args.start_date /\ b.property_id \in ResultIds
    /\ \E p \in properties : p.id \in IdsWithoutBookings /\ p.id \notin ResultIds

\* C6: the total of a row priced on the monthly path is
\* (nights div 30) * monthly_rate + (nights mod 30) * (monthly_rate / 30)
\* with the division exact, rounded half-up; for a whole monthly_rate that
\* is floor((2 * monthly_rate * nights + 30) / 60).
C6_MonthlyExact ==
    (/\ RowPriced
     /\ stay_duration_nights >= 30
     /\ prop.monthly_rate # None
     /\ Included(total_price)
     /\ prop.monthly_rate.f = <<>>) =>
        LastEntry.total_price =
            (2 * prop.monthly_rate.i * stay_duration_nights + 30) \div 60

\* nights * price (at most three decimals), computed on integers.
ExactNightly(nights, price) ==
    LET f3   == Pad(price.f, 3)
        frac == nights * (100 * f3[1] + 10 * f3[2] + f3[3])
        r    == frac % 1000
    IN Dec(nights * price.i + frac \div 1000,
           <<r \div 100, (r \div 10) % 10, r % 10>>)

MonthlyApplies == stay_duration_nights >= 30 /\ prop.monthly_rate # None

\* C7: where the monthly path does not apply and price_per_night is
\* present the total is nights * price_per_night; where the monthly path
\* applies the nightly product is not the total; with neither path the
\* total is 0.
C7_NightlyPath ==
    RowPriced =>
        /\ (~MonthlyApplies /\ prop.price_per_night # None) =>
               total_price = ExactNightly(stay_duration_nights, prop.price_per_night)
        /\ (MonthlyApplies /\ prop.price_per_night # None
              /\ 30 * prop.price_per_night.i > prop.monthly_rate.i) =>
               total_price # ExactNightly(stay_duration_nights, prop.price_per_night)
        /\ (~MonthlyApplies /\ prop.price_per_night = None) => total_price = DecZero

C7_Witness ==
    /\ RowPriced
    /\ stay_duration_nights = 10
    /\ prop.price_per_night = D(80000)
    /\ total_price = D(800000)
    /\ LastEntry.total_price = 800000

\* C8: a positive total is rounded to the nearest integer, ties up: X.5
\* gives X+1, a fraction below .5 gives X, a fraction above .5 gives X+1.
C8_RoundHalfUp ==
    (RowPriced /\ Included(total_price)) =>
        LET X == total_price.i
            f == total_price.f
        IN /\ f = <<5>> => LastEntry.total_price = X + 1
           /\ (f = <<>> \/ (f # <<>> /\ f[1] < 5)) => LastEntry.total_price = X
           /\ (f # <<>> /\ f # <<5>> /\ f[1] >= 5) => LastEntry.total_price = X + 1

C8_Witness ==
    /\ RowPriced
    /\ total_price = Dec(0, <<5>>)
    /\ LastEntry.total_price = 1

\* C9: every property in the result has exactly the requested number of
\* bedrooms and a minimum stay of at most the requested nights.
C9_BedroomsAndMinStay ==
    \A e \in Entries :
        \A p \in properties :
            p.id = e.property_id =>
                /\ p.num_bedrooms = args.num_bedrooms.v
                /\ p.min_stay_nights <= ArgNights

C9_Witness ==
    /\ pc = "done" /\ response.status = 200
    /\ ResultIds # {}
    /\ \E p \in properties :
          /\ p.num_bedrooms = args.num_bedrooms.v
          /\ p.min_stay_nights > ArgNights
          /\ p.pricing_category \in { r.category : r \in pricing_rules }
    /\ \E p \in properties :
          /\ p.num_bedrooms # args.num_bedrooms.v
          /\ p.pricing_category \in { r.category : r \in pricing_rules }

\* C10: a property identifier appears at most once in a result list.
C10_IdsUnique ==
    \A j, k \in 1..Len(results) :
        results[j].property_id = results[k].property_id => j = k
====
